---- MODULE Spec2Model ----
(***************************************************************************)
(* Model of runbot/static/src/js/runbot.js: the RunbotPage public widget   *)
(* (_onClickDataRunbot, _onClickRunbotCopy) and the FreezeController form   *)
(* controller (the polling of the freeze wizard).                          *)
(*                                                                         *)
(* Strings are sequences of tokens.  A token is either the literal         *)
(* "/build/" or a piece of text that holds no part of that literal         *)
(* ("4", "?", "#", "undefined", the host prefix), so that substring        *)
(* search on tokens is substring search on the characters.                 *)
(***************************************************************************)
EXTENDS Naturals, Sequences, FiniteSets

VARIABLES href, reloads, parentOf, innerText, hasClipboard, clipboard,
          calls, posts, copies,
          status, activeIntervals, ticks, dirty, currentIds, serverIds, edits

\* The public page and its widget.
pageVars == <<href, reloads, parentOf, innerText, hasClipboard, clipboard,
              calls, posts, copies>>

\* The freeze wizard: its controller and its root record.
freezeVars == <<status, activeIntervals, ticks, dirty, currentIds,
                serverIds, edits>>

vars == <<pageVars, freezeVars>>

\* Bounds of the model: handler invocations explored per behaviour.
MaxClicks == 2
MaxCopies == 1
\* Interval callbacks and user edits explored per behaviour.
MaxTicks == 2
MaxEdits == 2

---------------------------------------------------------------------------
(* Optional values: an absent attribute (undefined) or a null reference.   *)
None == <<>>
Some(x) == <<x>>

(* Tokens *)
BUILD == "/build/"
HOST == "https://host/runbot"

(* ------------------------- String primitives -------------------------- *)

\* String.prototype.endsWith
EndsWith(s, suffix) ==
    /\ Len(suffix) <= Len(s)
    /\ SubSeq(s, Len(s) - Len(suffix) + 1, Len(s)) = suffix

\* String.prototype.indexOf: position of the first occurrence, 0 if none
IndexOf(s, pat) ==
    LET hits == {i \in 1..(Len(s) + 1) :
                    /\ i + Len(pat) - 1 <= Len(s)
                    /\ SubSeq(s, i, i + Len(pat) - 1) = pat}
    IN IF hits = {} THEN 0
       ELSE CHOOSE i \in hits : \A j \in hits : i <= j

\* s.split('?')[0]: the part of s before the first "?"
SplitQuery0(s) ==
    LET q == IndexOf(s, <<"?">>)
    IN IF q = 0 THEN s ELSE SubSeq(s, 1, q - 1)

\* String.prototype.replace with a string pattern: the FIRST occurrence
\* of pat is replaced, and s is returned as it is when there is none.
Replace(s, pat, repl) ==
    LET i == IndexOf(s, pat)
    IN IF i = 0 THEN s
       ELSE SubSeq(s, 1, i - 1) \o repl \o SubSeq(s, i + Len(pat), Len(s))

\* String conversion of a dataset value in a template literal or a "+":
\* an absent attribute (undefined) reads "undefined".
ToString(opt) == IF opt = None THEN <<"undefined">> ELSE opt[1]

\* `/build/${runbotBuild}` and '/build/' + runbotBuild
BuildSegment(runbotBuild) == <<BUILD>> \o ToString(runbotBuild)

\* `/runbot/build/${runbotBuild}/${operation}`
BuildUrl(runbotBuild, operation) ==
    <<"/runbot", BUILD>> \o ToString(runbotBuild) \o <<"/", operation>>

(* ------------------------------- The page ----------------------------- *)

\* Elements matched by 'click [data-runbot]': their dataset, href and parent.
\* dataset.runbot is a string (possibly empty) since the selector requires
\* the attribute; dataset.runbotBuild is absent when the element has no
\* data-runbot-build attribute.
RunbotElements ==
    [ rb4    |-> [runbot |-> "rebuild", runbotBuild |-> Some(<<"4">>),
                  href |-> <<HOST, "/rb4">>,    parent |-> "row"],
      rbNone |-> [runbot |-> "rebuild", runbotBuild |-> None,
                  href |-> <<HOST, "/rbNone">>, parent |-> "row"],
      act4   |-> [runbot |-> "action",  runbotBuild |-> Some(<<"4">>),
                  href |-> <<HOST, "/act4">>,   parent |-> "cell"],
      kill4  |-> [runbot |-> "kill",    runbotBuild |-> Some(<<"4">>),
                  href |-> <<HOST, "/kill4">>,  parent |-> "row"],
      blank  |-> [runbot |-> "",        runbotBuild |-> Some(<<"4">>),
                  href |-> <<HOST, "/blank">>,  parent |-> "row"] ]

\* Elements matched by 'click [data-runbot-clipboard]'.
ClipboardElements ==
    [ cpText  |-> [runbotClipboard |-> <<"text">>, parent |-> "bar"],
      cpEmpty |-> [runbotClipboard |-> <<>>,       parent |-> "bar"] ]

Parents == {"row", "cell", "bar"}
AllElements == DOMAIN RunbotElements \cup DOMAIN ClipboardElements

InitialParent(e) ==
    IF e \in DOMAIN RunbotElements THEN RunbotElements[e].parent
    ELSE ClipboardElements[e].parent

\* Page URLs the widget is loaded at.
InitialHrefs ==
    { <<HOST, BUILD, "4">>,
      <<HOST, BUILD, "4", "?", "q">>,
      <<HOST, BUILD, "4", "2", BUILD, "4">>,
      <<HOST, BUILD, "4", "#", BUILD, "4">>,
      <<HOST, BUILD, "4", "#", BUILD, "undefined">>,
      <<HOST, BUILD, "5">> }

\* Response bodies of the POST (response.text()).
Bodies == { <<"9">>, <<"7">> }

ORIGINAL == <<"original">>

(* ------------------------------ The state ----------------------------- *)

\* The public page shows no freeze wizard.
FreezeAbsent ==
    /\ status = "absent"
    /\ activeIntervals = 0
    /\ ticks = <<>>
    /\ dirty = FALSE
    /\ currentIds = {}
    /\ serverIds = {}
    /\ edits = 0

Init ==
    /\ href \in InitialHrefs
    /\ reloads = 0
    /\ parentOf = [e \in AllElements |-> Some(InitialParent(e))]
    /\ innerText = [p \in Parents |-> ORIGINAL]
    /\ hasClipboard \in BOOLEAN
    /\ clipboard = <<>>
    /\ calls = <<>>
    /\ posts = <<>>
    /\ copies = <<>>
    /\ FreezeAbsent

\* One invocation of _onClickDataRunbot.  hrefAtClick records the page URL
\* at the click; the handler does not read it.
NewCall(target, pc, url) ==
    [ target     |-> target,
      hrefAtClick |-> href,
      pc         |-> pc,
      prevented  |-> TRUE,
      url        |-> url,
      resolved   |-> FALSE,
      hrefRead   |-> None,
      parentRead |-> None,
      body       |-> None,
      effects    |-> <<>> ]

\* The click event is dispatched to elements of the document only.
Attached(e) == parentOf[e] # None

(* --------------------------- _onClickDataRunbot ----------------------- *)

\* JavaScript truthiness of a dataset value: undefined and "" are falsy.
Truthy(opt) == opt # None /\ opt[1] # <<>>

\* Variant of TargetUrl that forgets the build id and always posts to href.
TargetUrlHrefOnly(e) == RunbotElements[e].href

\* Lines 22-25: the URL the POST goes to.
TargetUrl(e) ==
    IF Truthy(RunbotElements[e].runbotBuild)
    THEN BuildUrl(RunbotElements[e].runbotBuild, RunbotElements[e].runbot)
    ELSE RunbotElements[e].href

\* Variant of Fetch with a busy-guard: no request while one is in flight.
FetchUnlessBusy(url) ==
    IF \E i \in 1..Len(calls) : calls[i].pc = "fetch"
    THEN posts ELSE Append(posts, url)

\* Line 26: fetch(url, {method: 'POST'}) sends one request.
Fetch(url) == Append(posts, url)

\* Lines 12-28: from the click to the suspension at `await fetch(...)`.
\* event.currentTarget is the matched element, so line 14 never returns.
\* preventDefault (line 17) runs before the operation is looked at.
_onClickDataRunbot(e) ==
    /\ Len(calls) < MaxClicks
    /\ e \in DOMAIN RunbotElements
    /\ Attached(e)
    /\ IF RunbotElements[e].runbot = ""
       THEN /\ calls' = Append(calls, NewCall(e, "returned", None))
            /\ posts' = posts
       ELSE /\ calls' = Append(calls, NewCall(e, "fetch", Some(TargetUrl(e))))
            /\ posts' = Fetch(TargetUrl(e))
    /\ UNCHANGED <<href, reloads, parentOf, innerText, hasClipboard,
                   clipboard, copies,
                   freezeVars>>

\* Line 29: the test that selects the URL rewrite.
RebuildMatches(operation, runbotBuild, location) ==
    /\ operation = "rebuild"
    /\ EndsWith(SplitQuery0(location), BuildSegment(runbotBuild))

\* Variant of FetchRejects that sends the request again on a failure.
FetchRejectsAndRetries(i) ==
    /\ i \in 1..Len(calls)
    /\ calls[i].pc = "fetch"
    /\ Len(posts) <= Len(calls)
    /\ calls' = [calls EXCEPT ![i].pc = "thrown"]
    /\ posts' = Append(posts, calls[i].url[1])
    /\ UNCHANGED <<href, reloads, parentOf, innerText, hasClipboard,
                   clipboard, copies,
                   freezeVars>>

\* `await fetch` rejects on a network error: the async handler ends with
\* the rejection, nothing after line 26 runs.
FetchRejects(i) ==
    /\ i \in 1..Len(calls)
    /\ calls[i].pc = "fetch"
    /\ calls' = [calls EXCEPT ![i].pc = "thrown"]
    /\ UNCHANGED <<href, reloads, parentOf, innerText, hasClipboard,
                   clipboard, posts, copies,
                   freezeVars>>

\* Lines 29-35, up to the next await.  The response has arrived; the branch
\* is chosen on the page as it is now.  In the rebuild branch the receiver
\* of .replace (window.location.href) is read before `await
\* response.text()`; in the action branch target.parentElement is.
FetchResolves(i) ==
    /\ i \in 1..Len(calls)
    /\ calls[i].pc = "fetch"
    /\ LET e == calls[i].target
           operation == RunbotElements[e].runbot
           runbotBuild == RunbotElements[e].runbotBuild
       IN IF RebuildMatches(operation, runbotBuild, href)
          THEN /\ calls' = [calls EXCEPT ![i].pc = "textRebuild",
                                         ![i].resolved = TRUE,
                                         ![i].hrefRead = Some(href)]
               /\ reloads' = reloads
          ELSE IF operation = "action"
          THEN /\ calls' = [calls EXCEPT ![i].pc = "textAction",
                                         ![i].resolved = TRUE,
                                         ![i].parentRead = parentOf[e]]
               /\ reloads' = reloads
          ELSE /\ calls' = [calls EXCEPT
                               ![i].pc = "done",
                               ![i].resolved = TRUE,
                               ![i].effects = Append(@, "reload")]
               /\ reloads' = reloads + 1
    /\ UNCHANGED <<href, parentOf, innerText, hasClipboard, clipboard,
                   posts, copies,
                   freezeVars>>

\* Line 30 after `await response.text()`: the URL read before the await,
\* with '/build/' + runbotBuild replaced, is assigned to the location.
RewriteLocation(location, runbotBuild, text) ==
    Replace(location, BuildSegment(runbotBuild), <<BUILD>> \o text)

TextResolvesRebuild(i, text) ==
    /\ i \in 1..Len(calls)
    /\ calls[i].pc = "textRebuild"
    /\ href' = RewriteLocation(calls[i].hrefRead[1],
                      RunbotElements[calls[i].target].runbotBuild, text)
    /\ calls' = [calls EXCEPT ![i].pc = "done",
                              ![i].body = Some(text),
                              ![i].effects = Append(@, "rewrite")]
    /\ UNCHANGED <<reloads, parentOf, innerText, hasClipboard, clipboard,
                   posts, copies,
                   freezeVars>>

\* Setting innerText replaces the children of the element by the text:
\* every element whose parent it was is removed from the document.
DetachChildren(p) ==
    [x \in AllElements |-> IF parentOf[x] = Some(p) THEN None ELSE parentOf[x]]

\* Line 32 after `await response.text()`.  target.parentElement is null
\* once the target was removed from the document; the assignment to
\* null.innerText then throws a TypeError and the handler ends rejected.
TextResolvesAction(i, text) ==
    /\ i \in 1..Len(calls)
    /\ calls[i].pc = "textAction"
    /\ IF calls[i].parentRead = None
       THEN /\ calls' = [calls EXCEPT ![i].pc = "thrown",
                                      ![i].body = Some(text)]
            /\ UNCHANGED <<innerText, parentOf>>
       ELSE /\ innerText' = [innerText EXCEPT ![calls[i].parentRead[1]] = text]
            /\ parentOf' = DetachChildren(calls[i].parentRead[1])
            /\ calls' = [calls EXCEPT ![i].pc = "done",
                                      ![i].body = Some(text),
                                      ![i].effects = Append(@, "patch")]
    /\ UNCHANGED <<href, reloads, hasClipboard, clipboard, posts, copies,
                   freezeVars>>

(* --------------------------- _onClickRunbotCopy ----------------------- *)

\* Variant of ClipboardAvailable that leaves the guard of line 39 out.
ClipboardAssumed == TRUE

\* Line 39: navigator.clipboard exists (target always does).
ClipboardAvailable == hasClipboard

\* Variant of CopiedText that copies the visible text around the element.
CopiedTextInner(e) == innerText[ClipboardElements[e].parent]

\* Line 43: the text handed to writeText.
CopiedText(e) == ClipboardElements[e].runbotClipboard

\* Lines 38-45.  Past the guard of line 39, navigator.clipboard.writeText
\* is called: a TypeError if navigator.clipboard is undefined.
_onClickRunbotCopy(e) ==
    /\ Len(copies) < MaxCopies
    /\ e \in DOMAIN ClipboardElements
    /\ Attached(e)
    /\ IF ~ClipboardAvailable
       THEN /\ copies' = Append(copies, [target |-> e, result |-> "returned"])
            /\ clipboard' = clipboard
       ELSE IF hasClipboard
       THEN /\ copies' = Append(copies, [target |-> e, result |-> "written"])
            /\ clipboard' = Append(clipboard, CopiedText(e))
       ELSE /\ copies' = Append(copies, [target |-> e, result |-> "thrown"])
            /\ clipboard' = clipboard
    /\ UNCHANGED <<href, reloads, parentOf, innerText, hasClipboard,
                   calls, posts,
                   freezeVars>>

Next ==
    \/ \E e \in DOMAIN RunbotElements : _onClickDataRunbot(e)
    \/ \E i \in 1..MaxClicks : FetchRejects(i)
    \/ \E i \in 1..MaxClicks : FetchResolves(i)
    \/ \E i \in 1..MaxClicks, text \in Bodies : TextResolvesRebuild(i, text)
    \/ \E i \in 1..MaxClicks, text \in Bodies : TextResolvesAction(i, text)
    \/ \E e \in DOMAIN ClipboardElements : _onClickRunbotCopy(e)

Spec == Init /\ [][Next]_vars

(* ---------------------------- FreezeController ------------------------ *)

\* Ids a required_pr_ids field can hold.
PrIds == {"pr1", "pr2"}

\* The page of the freeze wizard: no RunbotPage click is handled there.
PageIdle ==
    /\ href = <<HOST, "/web">>
    /\ reloads = 0
    /\ parentOf = [e \in AllElements |-> Some(InitialParent(e))]
    /\ innerText = [p \in Parents |-> ORIGINAL]
    /\ hasClipboard = TRUE
    /\ clipboard = <<>>
    /\ calls = <<>>
    /\ posts = <<>>
    /\ copies = <<>>

\* Lines 57-58: the controller is set up, not mounted yet; its root record
\* is loaded and clean.  The server's value may differ from the loaded one.
FreezeInit ==
    /\ PageIdle
    /\ status = "setup"
    /\ activeIntervals = 0
    /\ ticks = <<>>
    /\ dirty = FALSE
    /\ currentIds \in SUBSET PrIds
    /\ serverIds \in SUBSET PrIds
    /\ edits = 0

\* Lines 60-61, 76: the effect of useEffect has no dependency that changes
\* (() => []): it runs once, when the component is mounted, and starts
\* the interval.
Mount ==
    /\ status = "setup"
    /\ status' = "mounted"
    /\ activeIntervals' = activeIntervals + 1
    /\ UNCHANGED <<ticks, dirty, currentIds, serverIds, edits, pageVars>>

\* Lines 73-75: the cleanup of the effect, run when the component is
\* destroyed: clearInterval.  Callbacks already running are not touched.
Unmount ==
    /\ status = "mounted"
    /\ status' = "destroyed"
    /\ activeIntervals' = activeIntervals - 1
    /\ UNCHANGED <<ticks, dirty, currentIds, serverIds, edits, pageVars>>

\* Lines 61-63: the interval fires (every 1000 ms, whether or not earlier
\* callbacks are over); the callback reads this.model.root, calls
\* root.isDirty() and is suspended by the await.
IntervalFires ==
    /\ activeIntervals > 0
    /\ Len(ticks) < MaxTicks
    /\ ticks' = Append(ticks, [pc |-> "isDirty", did |-> "none",
                               sent |-> None])
    /\ UNCHANGED <<status, activeIntervals, dirty, currentIds, serverIds,
                   edits, pageVars>>

\* Variant of ReportedDirty for a test that is never truthy.
ReportedDirtyNever == FALSE

\* Line 63: the value `await root.isDirty()` resumes with: whether the
\* record has unsaved changes when the promise settles.  The callback
\* resumes in the microtask that follows, before any other event.
ReportedDirty == dirty

\* Lines 65-67: x2ManyCommands.set(root.data.required_pr_ids.currentIds)
SetCommand == currentIds

\* Lines 63-71: the callback resumes from the await and either updates the
\* record with its own ids or loads it again.  load() brings the server's
\* value and leaves the record clean.
IsDirtyResolves(t) ==
    /\ t \in 1..Len(ticks)
    /\ ticks[t].pc = "isDirty"
    /\ IF ReportedDirty
       THEN /\ ticks' = [ticks EXCEPT ![t] = [pc |-> "done", did |-> "update",
                                              sent |-> Some(SetCommand)]]
            /\ currentIds' = SetCommand
            /\ dirty' = TRUE
       ELSE /\ ticks' = [ticks EXCEPT ![t] = [pc |-> "done", did |-> "load",
                                              sent |-> None]]
            /\ currentIds' = serverIds
            /\ dirty' = FALSE
    /\ UNCHANGED <<status, activeIntervals, serverIds, edits, pageVars>>

\* The user changes required_pr_ids in the form: the record is dirty.
Edit(id) ==
    /\ status = "mounted"
    /\ edits < MaxEdits
    /\ edits' = edits + 1
    /\ currentIds' = IF id \in currentIds THEN currentIds \ {id}
                     ELSE currentIds \cup {id}
    /\ dirty' = TRUE
    /\ UNCHANGED <<status, activeIntervals, ticks, serverIds, pageVars>>

\* The user saves the form: the record is clean again.
Save ==
    /\ status = "mounted"
    /\ dirty
    /\ serverIds' = currentIds
    /\ dirty' = FALSE
    /\ UNCHANGED <<status, activeIntervals, ticks, currentIds, edits,
                   pageVars>>

FreezeNext ==
    \/ Mount
    \/ Unmount
    \/ IntervalFires
    \/ \E t \in 1..MaxTicks : IsDirtyResolves(t)
    \/ \E id \in PrIds : Edit(id)
    \/ Save

FreezeSpec == FreezeInit /\ [][FreezeNext]_vars

(* ======================= Properties of the handlers =================== *)

Calls == 1..Len(calls)
Operation(i) == RunbotElements[calls[i].target].runbot
RunbotBuild(i) == RunbotElements[calls[i].target].runbotBuild

\* Call i resumes from `await response.text()` in this step.
TextRead(i) ==
    /\ calls[i].pc \in {"textRebuild", "textAction"}
    /\ calls'[i].pc # calls[i].pc

\* Call i resumes from `await fetch(...)` with a response in this step.
ResponseRead(i) == ~calls[i].resolved /\ calls'[i].resolved

\* A click on e is handled in this step.
Clicked(e) ==
    /\ Len(calls') = Len(calls) + 1
    /\ calls'[Len(calls')].target = e

\* A clipboard-marker element e is activated in this step.
Activated(e) ==
    /\ Len(copies') = Len(copies) + 1
    /\ copies'[Len(copies')].target = e

\* location with the "/build/B" that ends its query-less part replaced.
ReplaceTrailing(location, segment, repl) ==
    LET p == Len(SplitQuery0(location)) - Len(segment) + 1
    IN SubSeq(location, 1, p - 1) \o repl
         \o SubSeq(location, p + Len(segment), Len(location))

\* The build id of call i names the build segment that ends the URL.
MatchesTrailingBuild(i, location) ==
    /\ Truthy(RunbotBuild(i))
    /\ EndsWith(SplitQuery0(location), <<BUILD>> \o RunbotBuild(i)[1])

\* C1: when a rebuild click for build B reads its response N on a URL
\* whose query-less part ends with "/build/B", the page URL becomes that
\* URL with the trailing "/build/B" replaced by "/build/N", and nothing is
\* reloaded or patched.
C1_RebuildRewritesTrailingSegment ==
    [][\A i \in Calls :
         ( /\ calls[i].pc = "textRebuild" /\ TextRead(i)
           /\ MatchesTrailingBuild(i, calls[i].hrefRead[1]) ) =>
            /\ href' = ReplaceTrailing(calls[i].hrefRead[1],
                          <<BUILD>> \o RunbotBuild(i)[1],
                          <<BUILD>> \o calls'[i].body[1])
            /\ reloads' = reloads
            /\ innerText' = innerText]_vars

\* C2: when an action click reads its response, the text of the parent of
\* the clicked element is the response body, and the URL and the reload
\* count are untouched.
C2_ActionPatchesParentText ==
    [][\A i \in Calls :
         (calls[i].pc = "textAction" /\ TextRead(i)) =>
            /\ innerText'[RunbotElements[calls[i].target].parent]
                  = calls'[i].body[1]
            /\ href' = href
            /\ reloads' = reloads]_vars

\* C3: a click whose operation is empty leaves the default action alone,
\* posts nothing and changes neither the URL nor the DOM.
C3_EmptyOperationIsNoOp ==
    \A i \in Calls :
       Operation(i) = "" =>
          /\ ~calls[i].prevented
          /\ calls[i].url = None
          /\ calls[i].effects = <<>>

\* C4: a click whose response arrives and which is neither an action nor a
\* rebuild of the build the URL ends with reloads the page, and neither
\* rewrites the URL nor patches the parent.
C4_OtherwiseReload ==
    [][\A i \in Calls :
         ( /\ ResponseRead(i)
           /\ Operation(i) # "action"
           /\ ~(Operation(i) = "rebuild" /\ MatchesTrailingBuild(i, href)) )
         => /\ reloads' = reloads + 1
            /\ calls'[i].pc = "done"
            /\ calls'[i].effects = <<"reload">>
            /\ href' = href
            /\ innerText' = innerText]_vars

\* The URL the claim C5 gives for a click on e.
ExpectedUrl(e) ==
    IF RunbotElements[e].runbotBuild # None
    THEN <<"/runbot", BUILD>> \o RunbotElements[e].runbotBuild[1]
            \o <<"/", RunbotElements[e].runbot>>
    ELSE RunbotElements[e].href

\* C5: a click with a non-empty operation prevents the default and sends
\* exactly one POST, to /runbot/build/{buildId}/{operation} when the element
\* has a build id and to its href otherwise.
C5_ClickPostsOnceToTargetUrl ==
    [][\A e \in DOMAIN RunbotElements :
         (Clicked(e) /\ RunbotElements[e].runbot # "") =>
            /\ calls'[Len(calls')].prevented
            /\ posts' = Append(posts, ExpectedUrl(e))]_vars

C5_Witness ==
    \E i, j \in Calls :
       /\ calls[i].target = "rb4"    /\ calls[i].url = Some(posts[i])
       /\ calls[j].target = "rbNone" /\ calls[j].url = Some(posts[j])
       /\ posts[i] = <<"/runbot", BUILD, "4", "/", "rebuild">>
       /\ posts[j] = <<HOST, "/rbNone">>

\* C6: with a clipboard API, activating a clipboard-marker element writes
\* the literal of its data attribute, once, sends no request and changes
\* neither the URL nor the DOM.
C6_CopyWritesLiteralOnce ==
    [][\A e \in DOMAIN ClipboardElements :
         (Activated(e) /\ hasClipboard) =>
            /\ clipboard' = Append(clipboard,
                               ClipboardElements[e].runbotClipboard)
            /\ copies'[Len(copies')].result = "written"
            /\ UNCHANGED <<posts, calls, href, reloads, innerText,
                           parentOf>>]_vars

C6_Witness ==
    /\ hasClipboard
    /\ Len(copies) = 1 /\ copies[1].target = "cpText"
    /\ clipboard = << <<"text">> >>
    /\ posts = <<>>

\* C7: without a clipboard API, activating a clipboard-marker element
\* returns without an error and writes nothing; the clipboard, the URL and
\* the DOM stay as they were.
C7_CopyWithoutClipboardIsSilent ==
    [][\A e \in DOMAIN ClipboardElements :
         (Activated(e) /\ ~hasClipboard) =>
            /\ copies'[Len(copies')].result = "returned"
            /\ UNCHANGED <<clipboard, posts, calls, href, reloads,
                           innerText, parentOf>>]_vars

C7_Witness ==
    /\ ~hasClipboard
    /\ Len(copies) = 1 /\ copies[1].result = "returned"
    /\ clipboard = <<>>

\* location.origin + location.pathname: the URL up to its "?" or "#".
OriginPathname(location) ==
    LET q == IndexOf(location, <<"?">>)
        h == IndexOf(location, <<"#">>)
        cut == IF q = 0 THEN h ELSE IF h = 0 THEN q ELSE IF q < h THEN q ELSE h
    IN IF cut = 0 THEN location ELSE SubSeq(location, 1, cut - 1)

\* The fragment of the URL, without its "#".
Hash(location) ==
    LET h == IndexOf(location, <<"#">>)
    IN IF h = 0 THEN <<>> ELSE SubSeq(location, h + 1, Len(location))

\* C8: activating a clipboard-marker element whose data attribute holds no
\* text writes origin + pathname + '#' + hash of the page to the clipboard.
C8_EmptyLiteralCopiesPageUrl ==
    [][\A e \in DOMAIN ClipboardElements :
         ( /\ Activated(e) /\ hasClipboard
           /\ ClipboardElements[e].runbotClipboard = <<>> ) =>
            clipboard' = Append(clipboard,
                           OriginPathname(href) \o <<"#">> \o Hash(href))]_vars

\* C9: a click has applied no effect before its response arrived, and once
\* its handler is over after the response it has applied exactly one.
C9_OneEffectAfterResponse ==
    \A i \in Calls :
       /\ ~calls[i].resolved => calls[i].effects = <<>>
       /\ (calls[i].resolved /\ calls[i].pc \in {"done", "thrown"})
             => Len(calls[i].effects) = 1

\* C10: as many POSTs were sent as clicks with a non-empty operation were
\* handled, whatever is in flight.
C10_OnePostPerClick ==
    Len(posts) = Cardinality({i \in Calls : Operation(i) # ""})

\* Two rebuild requests for the same build in flight at once.
C10_Witness ==
    \E i, j \in Calls :
       /\ i # j
       /\ calls[i].target = "rb4" /\ calls[j].target = "rb4"
       /\ calls[i].pc = "fetch"   /\ calls[j].pc = "fetch"
       /\ Len(posts) = 2 /\ posts[1] = posts[2]

\* The effect call i has when it is handled alone on the page of its click.
EffectAlone(i) ==
    IF RebuildMatches(Operation(i), RunbotBuild(i), calls[i].hrefAtClick)
    THEN "rewrite"
    ELSE IF Operation(i) = "action" THEN "patch" ELSE "reload"

\* C11: whatever the interleaving, the effect a click applies once its
\* response is handled is the one it has when handled alone from the page
\* of its click: same kind, same URL written, same text patched.
C11_ClickEffectIndependent ==
    [][\A i \in Calls :
         ( /\ calls[i].pc \in {"fetch", "textRebuild", "textAction"}
           /\ calls[i].pc = "fetch" => ResponseRead(i)
           /\ calls'[i].pc \in {"done", "thrown"} ) =>
            /\ calls'[i].effects = <<EffectAlone(i)>>
            /\ EffectAlone(i) = "rewrite" =>
                  href' = RewriteLocation(calls[i].hrefAtClick,
                              RunbotBuild(i), calls'[i].body[1])
            /\ EffectAlone(i) = "patch" =>
                  innerText'[RunbotElements[calls[i].target].parent]
                     = calls'[i].body[1]]_vars

\* Call i ends by the rejection of its fetch in this step.
FetchFailed(i) ==
    /\ calls[i].pc = "fetch"
    /\ calls'[i].pc = "thrown"
    /\ ~calls'[i].resolved

\* C12: when the POST of a click fails, no request is sent again and none
\* of the three effects is applied, then or later: URL, DOM and reload
\* count stay as they were and the call stays as it ended.
C12_FailedPostNoRetryNoEffect ==
    [][\A i \in Calls :
         /\ FetchFailed(i) =>
               /\ posts' = posts
               /\ calls'[i].effects = <<>>
               /\ UNCHANGED <<href, reloads, innerText, parentOf>>
         /\ (calls[i].pc = "thrown" /\ ~calls[i].resolved) =>
               calls'[i] = calls[i]]_vars

C12_Witness ==
    \E i \in Calls :
       /\ calls[i].pc = "thrown" /\ ~calls[i].resolved
       /\ calls[i].effects = <<>>
       /\ Len(posts) = Len(calls)
       /\ reloads = 0

(* ==================== Properties of FreezeController ================== *)

Ticks == 1..Len(ticks)

\* The callback t resumes from `await root.isDirty()` in this step.
TickResumes(t) == ticks[t].pc = "isDirty" /\ ticks'[t].pc = "done"

\* Some callback loads, resp. updates, the record in this step.
Loaded == \E t \in Ticks : TickResumes(t) /\ ticks'[t].did = "load"
Updated == \E t \in Ticks : TickResumes(t) /\ ticks'[t].did = "update"

C14_NothingAfterTeardown ==
    [][ /\ activeIntervals' <= 1
        /\ status' = "mounted" => activeIntervals' = 1
        /\ status' = "destroyed" => activeIntervals' = 0
        /\ status = "destroyed" =>
              /\ Len(ticks') = Len(ticks)
              /\ ~Loaded
              /\ ~Updated ]_vars
====
